---- MODULE Spec2Model ----
(***************************************************************************)
(* Model of the ABC-notation panel app (src/intents/design_editor/app.tsx). *)
(*                                                                         *)
(* Texts are sequences of one-character strings, so that split, trimStart, *)
(* trim, startsWith and join are computed character by character, the way  *)
(* the JavaScript string methods compute them.                             *)
(*                                                                         *)
(* Four specifications:                                                    *)
(*   Spec      the React component as an event-driven state machine:       *)
(*             mount, text edits, clicks on the button, host completions.  *)
(*   FairSpec  Spec plus weak fairness of the host completions.            *)
(*   TextSpec  the pure text functions applied to bounded input strings.   *)
(*   ExportSpec  the export preparation (viewBox rewrite, background, data *)
(*             URL) applied to bounded inputs.                             *)
(***************************************************************************)
EXTENDS Integers, Sequences, FiniteSets, TLC

VARIABLES
  supported,         \* the features isSupported() answers true for (line 31)
  mounted,           \* the first useEffect run has happened (lines 53-93)
  abcInput,          \* useState(DEFAULT_ABC)                 (line 36)
  isLoading,         \* useState(false)                       (line 37)
  error,             \* useState<string | null>(null)         (line 38)
  hasValidNotation,  \* useState(false)                       (line 39)
  clicks,            \* number of clicks the user made on the button
  inv,               \* the invocations of handleAddToDesign, in order
  calls,             \* the external calls made, in order
  txt,               \* TextSpec: the input string
  normOut,           \* TextSpec: normalizeAbcInput of txt, then of that result
  validOut,          \* TextSpec: the classifier's result on txt, once computed
  expIn,             \* ExportSpec: what the export preparation starts from
  expOut             \* ExportSpec: what it produced, once computed

appVars == <<supported, mounted, abcInput, isLoading, error, hasValidNotation,
             clicks, inv, calls>>
textVars == <<txt, normOut, validOut>>
exportVars == <<expIn, expOut>>
vars == <<supported, mounted, abcInput, isLoading, error, hasValidNotation,
          clicks, inv, calls, txt, normOut, validOut, expIn, expOut>>

----------------------------------------------------------------------------
(* Bounds *)

MaxClicks == 2
MaxLen == 4
MaxCtx == 2
MaxCoord == 2
MaxUnits == 3

----------------------------------------------------------------------------
(* JavaScript string methods on sequences of characters *)

\* The characters String.prototype.trim / trimStart remove (those in use here).
WhiteSpace == {" ", "\t", "\n", "\r"}

Min(S) == CHOOSE x \in S : \A y \in S : x <= y
Max(S) == CHOOSE x \in S : \A y \in S : x >= y

\* s.split(sep): the pieces between the separators; "" gives [""].
split(s, sep) ==
  LET hits == {i \in 1..Len(s) : s[i] = sep}
      n == Cardinality(hits)
      \* cut[k]: the position of the k-th separator; 0 and Len(s) + 1 around.
      cut[k \in 0..(n + 1)] ==
        IF k = 0 THEN 0
        ELSE IF k = n + 1 THEN Len(s) + 1
        ELSE CHOOSE h \in hits : Cardinality({x \in hits : x < h}) = k - 1
  IN  [k \in 1..(n + 1) |-> SubSeq(s, cut[k - 1] + 1, cut[k] - 1)]

\* lines.join("\n")
RECURSIVE join(_, _)
join(lines, sep) ==
  IF Len(lines) = 0 THEN <<>>
  ELSE IF Len(lines) = 1 THEN lines[1]
  ELSE lines[1] \o <<sep>> \o join(Tail(lines), sep)

\* A mutant of trimStart: only one leading whitespace character is removed
\* (/^\s/ in place of /^\s+/).
trimStartOneChar(line) ==
  IF Len(line) > 0 /\ line[1] \in WhiteSpace THEN Tail(line) ELSE line

\* line.trimStart()
trimStart(line) ==
  LET ink == {i \in 1..Len(line) : line[i] \notin WhiteSpace}
  IN  IF ink = {} THEN <<>> ELSE SubSeq(line, Min(ink), Len(line))

\* line.trim()
trim(line) ==
  LET ink == {i \in 1..Len(line) : line[i] \notin WhiteSpace}
  IN  IF ink = {} THEN <<>> ELSE SubSeq(line, Min(ink), Max(ink))

\* s.startsWith(p)
startsWith(s, p) == Len(s) >= Len(p) /\ SubSeq(s, 1, Len(p)) = p

----------------------------------------------------------------------------
(* The normalizer and the classifier *)

DEFAULT_ABC ==
  <<"X", ":", "1", "\n", "T", ":", "T", "w", "i", "n", "k", "l", "e", " ",
    "T", "w", "i", "n", "k", "l", "e", " ", "L", "i", "t", "t", "l", "e",
    " ", "S", "t", "a", "r", "\n", "M", ":", "4", "/", "4", "\n", "L", ":",
    "1", "/", "4", "\n", "K", ":", "C", "\n", "C", " ", "C", " ", "G", " ",
    "G", " ", "|", " ", "A", " ", "A", " ", "G", "2", " ", "|", " ", "F",
    " ", "F", " ", "E", " ", "E", " ", "|", " ", "D", " ", "D", " ", "C",
    "2", " ", "|", "\n", "G", " ", "G", " ", "F", " ", "F", " ", "|", " ",
    "E", " ", "E", " ", "D", "2", " ", "|", " ", "G", " ", "G", " ", "F",
    " ", "F", " ", "|", " ", "E", " ", "E", " ", "D", "2", " ", "|", "\n",
    "C", " ", "C", " ", "G", " ", "G", " ", "|", " ", "A", " ", "A", " ",
    "G", "2", " ", "|", " ", "F", " ", "F", " ", "E", " ", "E", " ", "|",
    " ", "D", " ", "D", " ", "C", "2", " ", "|", "\n">>

\* A mutant of normalizeAbcInput: trim() in place of trimStart().
normalizeAbcInputTrimBoth(input) ==
  LET lines == split(input, "\n")
  IN  join([i \in 1..Len(lines) |-> trim(lines[i])], "\n")

\* input.split("\n").map((line) => line.trimStart()).join("\n")
normalizeAbcInput(input) ==
  LET lines == split(input, "\n")
  IN  join([i \in 1..Len(lines) |-> trimStart(lines[i])], "\n")

\* A mutant of HeaderPrefixes: the lyrics field "w:" is compared as "W:" only.
HeaderPrefixesNoLowerW ==
  {<<c, ":">> : c \in {"X", "T", "M", "L", "K", "C", "Q", "R", "N", "H", "S",
                       "O", "B", "D", "Z", "G", "F", "P", "I", "W", "V"}}
    \cup {<<"%", "%">>}

\* A mutant of HeaderPrefixes: the title field "T:" is missing from the list.
HeaderPrefixesNoTitle ==
  {<<c, ":">> : c \in {"X", "M", "L", "K", "C", "Q", "R", "N", "H", "S",
                       "O", "B", "D", "Z", "G", "F", "P", "I", "W", "w", "V"}}
    \cup {<<"%", "%">>}

\* The prefixes of the !trimmed.startsWith(...) chain.
HeaderPrefixes ==
  {<<c, ":">> : c \in {"X", "T", "M", "L", "K", "C", "Q", "R", "N", "H", "S",
                       "O", "B", "D", "Z", "G", "F", "P", "I", "W", "w", "V"}}
    \cup {<<"%", "%">>}

\* The callback of .some(): trimmed && !trimmed.startsWith("X:") && ...
isNoteLine(line) ==
  LET trimmed == trim(line)
  IN  /\ trimmed # <<>>
      /\ \A p \in HeaderPrefixes : ~startsWith(trimmed, p)

\* A mutant of hasNotes: .every() in place of .some().
hasNotesEveryLine(input) ==
  LET lines == split(normalizeAbcInput(input), "\n")
  IN  \A i \in 1..Len(lines) : isNoteLine(lines[i])

\* const hasNotes = normalizeAbcInput(abcInput).split("\n").some(...)
hasNotes(input) ==
  LET lines == split(normalizeAbcInput(input), "\n")
  IN  \E i \in 1..Len(lines) : isNoteLine(lines[i])

----------------------------------------------------------------------------
(* The component's state *)

null == "null"
undefined == "undefined"

\* defaultMessage of the two intl.formatMessage calls that feed setError.
NoSheetMusicMessage == "No sheet music to add. Please enter ABC notation."
FailedMessage == "Failed to add sheet music to design"

Features == {"addElementAtPoint", "addElementAtCursor"}

\* A mutant of addElement: the candidates are listed in the other order.
addElementCursorFirst ==
  IF "addElementAtCursor" \in supported THEN "addElementAtCursor"
  ELSE IF "addElementAtPoint" \in supported THEN "addElementAtPoint"
  ELSE undefined

\* [addElementAtPoint, addElementAtCursor].find((fn) => isSupported(fn))
addElement ==
  IF "addElementAtPoint" \in supported THEN "addElementAtPoint"
  ELSE IF "addElementAtCursor" \in supported THEN "addElementAtCursor"
  ELSE undefined

\* Texts the user may put into the MultilineInput.
HeadersOnlyText ==
  <<"X", ":", "1", "\n", "T", ":", "T", "e", "s", "t", "\n", "M", ":", "4",
    "/", "4", "\n", "K", ":", "C", "\n">>
IndentedHeadersText ==
  <<" ", " ", "X", ":", "1", "\n", "\t", "K", ":", "C", "\n", " ", "\n",
    "%", "%", "s", "c", "a", "l", "e">>
ShortTuneText == <<"K", ":", "C", "\n", " ", "C", "D", "E", "|">>
EditTexts ==
  {DEFAULT_ABC, HeadersOnlyText, IndentedHeadersText, ShortTuneText}

\* What abcjs.renderAbc may do to the export container: throw, leave it
\* without an <svg> node, or put one there.
RenderOutcomes == {"throws", "noSvg", "svg"}

\* Whether the synchronous part of the try block (getBBox, XMLSerializer,
\* encodeURIComponent, btoa) runs through or throws.
ExportOutcomes == {"ok", "throws"}

\* The asset reference the host's upload returns to invocation id: an opaque
\* value, a fresh one for every upload.
UploadedRef(id) == <<"ref", id>>

\* States of one invocation of handleAddToDesign that got past line 98.
Ended == {"renderThrew", "noSvg", "exportThrew", "uploadRejected",
          "insertRejected", "inserted"}
InFlight == {"uploading", "inserting"}

\* A mutant of Disabled: the button forgets the isLoading term.
DisabledIgnoringLoading == addElement = undefined \/ ~hasValidNotation

\* A mutant of Disabled: the button forgets the hasValidNotation term.
DisabledIgnoringValidity == addElement = undefined \/ isLoading

\* disabled={!addElement || isLoading || !hasValidNotation}
Disabled == addElement = undefined \/ isLoading \/ ~hasValidNotation

\* The value of expIn and expOut outside ExportSpec, and of expOut before the
\* preparation has run.
NoExport == [kind |-> "none"]

Init ==
  /\ supported \in SUBSET Features
  /\ mounted = FALSE
  /\ abcInput = DEFAULT_ABC
  /\ isLoading = FALSE
  /\ error = null
  /\ hasValidNotation = FALSE
  /\ clicks = 0
  /\ inv = <<>>
  /\ calls = <<>>
  /\ txt = <<>>
  /\ normOut = <<>>
  /\ validOut = "unknown"
  /\ expIn = NoExport
  /\ expOut = NoExport

----------------------------------------------------------------------------
(* The validation effect *)

\* A mutant of Effect: the else branch clears the error as well.
\* A mutant of Effect: a text without notes is reported in the alert.
EffectReportingInvalid(input, err) ==
  IF hasNotes(input)
  THEN [hasValidNotation |-> TRUE, error |-> null]
  ELSE [hasValidNotation |-> FALSE, error |-> "No sheet music to add. Please enter ABC notation."]

EffectAlwaysClearing(input, err) ==
  [hasValidNotation |-> hasNotes(input), error |-> null]

\* The body of useEffect(() => {...}, [abcInput]) run on the text `input`
\* with the error state `err`: the hasValidNotation and error states after it.
Effect(input, err) ==
  IF hasNotes(input)
  THEN [hasValidNotation |-> TRUE, error |-> null]
  ELSE [hasValidNotation |-> FALSE, error |-> err]

\* Effect and normalizeAbcInput tabulated over the texts and error states of
\* this model, so that each is computed once per text and not once per step.
ErrorStates == {null, NoSheetMusicMessage, FailedMessage}
EffectOn == [t \in EditTexts, err \in ErrorStates |-> Effect(t, err)]
NormalizedOf == [t \in EditTexts |-> normalizeAbcInput(t)]

\* The classifier's result on each text of this model.
ClassifiedOf == [t \in EditTexts |-> hasNotes(t)]

\* The effect's first run, after the first render.
Mount ==
  /\ ~mounted
  /\ mounted' = TRUE
  /\ LET after == EffectOn[abcInput, error]
     IN  /\ hasValidNotation' = after.hasValidNotation
         /\ error' = after.error
  /\ UNCHANGED <<supported, abcInput, isLoading, clicks, inv, calls>>
  /\ UNCHANGED textVars
  /\ UNCHANGED exportVars

\* A mutant of Edit: the effect is not re-run for the new text (a dependency
\* array without abcInput), so the flag and the error keep their values.
EditWithoutEffect ==
  /\ mounted
  /\ \E value \in EditTexts :
       /\ value # abcInput
       /\ abcInput' = value
  /\ UNCHANGED <<supported, mounted, isLoading, error, hasValidNotation,
                 clicks, inv, calls>>
  /\ UNCHANGED textVars
  /\ UNCHANGED exportVars

\* onChange={(value) => setAbcInput(value)}, the render it causes and the
\* effect that render schedules, which runs before the next event.
\* A mutant of Edit: an export in flight is handed the edited text, as a
\* handler reading the latest text after its await would see it.
EditRetargetsExport ==
  /\ mounted
  /\ \E value \in EditTexts :
       /\ value # abcInput
       /\ abcInput' = value
       /\ LET after == EffectOn[value, error]
          IN  /\ hasValidNotation' = after.hasValidNotation
              /\ error' = after.error
       /\ inv' = [id \in 1..Len(inv) |->
                    IF inv[id].st \in InFlight
                    THEN [inv[id] EXCEPT !.input = NormalizedOf[value]]
                    ELSE inv[id]]
  /\ UNCHANGED <<supported, mounted, isLoading, clicks, calls>>
  /\ UNCHANGED textVars
  /\ UNCHANGED exportVars

\* A mutant of Edit: the change handler also resets the loading flag.
EditClearsLoading ==
  /\ mounted
  /\ \E value \in EditTexts :
       /\ value # abcInput
       /\ abcInput' = value
       /\ LET after == EffectOn[value, error]
          IN  /\ hasValidNotation' = after.hasValidNotation
              /\ error' = after.error
  /\ isLoading' = FALSE
  /\ UNCHANGED <<supported, mounted, clicks, inv, calls>>
  /\ UNCHANGED textVars
  /\ UNCHANGED exportVars

Edit ==
  /\ mounted
  /\ \E value \in EditTexts :
       /\ value # abcInput
       /\ abcInput' = value
       /\ LET after == EffectOn[value, error]
          IN  /\ hasValidNotation' = after.hasValidNotation
              /\ error' = after.error
  /\ UNCHANGED <<supported, mounted, isLoading, clicks, inv, calls>>
  /\ UNCHANGED textVars
  /\ UNCHANGED exportVars

----------------------------------------------------------------------------
(* handleAddToDesign *)

RenderCall(id, text) == [op |-> "renderAbc", id |-> id, arg |-> text]
UploadCall(id, text) == [op |-> "upload", id |-> id, arg |-> text]
\* A mutant of InsertCall: the reference of the first export is kept and reused.
InsertCallStaleRef(id, ref) == [op |-> addElement, id |-> id, arg |-> UploadedRef(1)]
InsertCall(id, ref) == [op |-> addElement, id |-> id, arg |-> ref]

Invocation(text, st) == [input |-> text, st |-> st, ref |-> <<>>]

\* The error state after abcjs.renderAbc throws: the call is outside the
\* try block, the exception leaves the handler and no setter runs.
AfterRenderThrows == error

\* A mutant of AfterNoSvg: the missing-svg branch reports the generic failure.
AfterNoSvgGeneric == FailedMessage

\* if (!svgElement) { setError(<no sheet music>); return; }
AfterNoSvg == NoSheetMusicMessage

\* The synchronous part of handleAddToDesign, from the click to the first
\* await (or to its return), with the renderer doing `r` and the export
\* preparation doing `e`.
handleAddToDesign(r, e) ==
  IF addElement = undefined
  THEN UNCHANGED <<isLoading, error, inv, calls>>
  ELSE
    LET normalizedInput == NormalizedOf[abcInput]
        id == Len(inv) + 1
        rendered == Append(calls, RenderCall(id, normalizedInput))
    IN  CASE r = "throws" ->
               /\ calls' = rendered
               /\ inv' = Append(inv, Invocation(normalizedInput, "renderThrew"))
               /\ error' = AfterRenderThrows
               /\ UNCHANGED isLoading
          [] r = "noSvg" ->
               /\ calls' = rendered
               /\ inv' = Append(inv, Invocation(normalizedInput, "noSvg"))
               /\ error' = AfterNoSvg
               /\ UNCHANGED isLoading
          [] r = "svg" /\ e = "throws" ->
               \* setIsLoading(true); setError(null); throw; catch; finally
               /\ calls' = rendered
               /\ inv' = Append(inv, Invocation(normalizedInput, "exportThrew"))
               /\ error' = FailedMessage
               /\ isLoading' = FALSE
          [] r = "svg" /\ e = "ok" ->
               \* setIsLoading(true); setError(null); await upload({...})
               /\ calls' = Append(rendered, UploadCall(id, normalizedInput))
               /\ inv' = Append(inv, Invocation(normalizedInput, "uploading"))
               /\ error' = null
               /\ isLoading' = TRUE

\* The user clicks the button; a disabled button does not call onClick. The
\* setters called before the handler's first await are rendered before the
\* next event is dispatched, so each click meets the button of the current
\* state.
Click ==
  /\ mounted
  /\ clicks < MaxClicks
  /\ clicks' = clicks + 1
  /\ IF Disabled
     THEN UNCHANGED <<isLoading, error, inv, calls>>
     ELSE \E r \in RenderOutcomes, e \in ExportOutcomes :
            handleAddToDesign(r, e)
  /\ UNCHANGED <<supported, mounted, abcInput, hasValidNotation>>
  /\ UNCHANGED textVars
  /\ UNCHANGED exportVars

\* A mutant of AfterUploadRejects: the catch block is missing, the finally runs.
AfterUploadRejectsSilent == error

\* catch { setError(<failed>) } reached from the rejected await upload(...)
AfterUploadRejects == FailedMessage

\* A mutant of AfterInsertRejects: insertion failures get their own message.
AfterInsertRejectsOwnMessage == "Failed to insert sheet music"

\* catch { setError(<failed>) } reached from the rejected await addElement(...)
AfterInsertRejects == FailedMessage

\* A mutant of Finally: the in-flight flag is cleared on success only.
FinallyOnSuccessOnly(st) == IF st = "inserted" THEN FALSE ELSE isLoading

\* finally { setIsLoading(false) }, for an invocation ending in state st.
Finally(st) == FALSE

\* await upload(...) resolves with result.ref; addElement({ref: result.ref})
\* is called and awaited.
UploadResolves ==
  /\ \E id \in 1..Len(inv) :
       /\ inv[id].st = "uploading"
       /\ LET result == [ref |-> UploadedRef(id)]
          IN  /\ inv' = [inv EXCEPT ![id].st = "inserting",
                                    ![id].ref = result.ref]
              /\ calls' = Append(calls, InsertCall(id, result.ref))
  /\ UNCHANGED <<supported, mounted, abcInput, isLoading, error,
                 hasValidNotation, clicks>>
  /\ UNCHANGED textVars
  /\ UNCHANGED exportVars

\* A mutant of UploadRejects: a rejected upload is tried once more before the
\* failure is reported.
UploadRejectsAndRetries ==
  /\ \E id \in 1..Len(inv) :
       /\ inv[id].st = "uploading"
       /\ IF Cardinality({n \in 1..Len(calls) :
                            calls[n].id = id /\ calls[n].op = "upload"}) = 1
          THEN /\ calls' = Append(calls, UploadCall(id, inv[id].input))
               /\ UNCHANGED <<inv, error, isLoading>>
          ELSE /\ inv' = [inv EXCEPT ![id].st = "uploadRejected"]
               /\ error' = AfterUploadRejects
               /\ isLoading' = Finally("uploadRejected")
               /\ UNCHANGED calls
  /\ UNCHANGED <<supported, mounted, abcInput, hasValidNotation, clicks>>
  /\ UNCHANGED textVars
  /\ UNCHANGED exportVars

\* await upload(...) rejects: catch, finally.
UploadRejects ==
  /\ \E id \in 1..Len(inv) :
       /\ inv[id].st = "uploading"
       /\ inv' = [inv EXCEPT ![id].st = "uploadRejected"]
  /\ error' = AfterUploadRejects
  /\ isLoading' = Finally("uploadRejected")
  /\ UNCHANGED <<supported, mounted, abcInput, hasValidNotation, clicks, calls>>
  /\ UNCHANGED textVars
  /\ UNCHANGED exportVars

\* await addElement(...) resolves: finally.
InsertResolves ==
  /\ \E id \in 1..Len(inv) :
       /\ inv[id].st = "inserting"
       /\ inv' = [inv EXCEPT ![id].st = "inserted"]
  /\ isLoading' = Finally("inserted")
  /\ UNCHANGED <<supported, mounted, abcInput, error, hasValidNotation,
                 clicks, calls>>
  /\ UNCHANGED textVars
  /\ UNCHANGED exportVars

\* await addElement(...) rejects: catch, finally.
InsertRejects ==
  /\ \E id \in 1..Len(inv) :
       /\ inv[id].st = "inserting"
       /\ inv' = [inv EXCEPT ![id].st = "insertRejected"]
  /\ error' = AfterInsertRejects
  /\ isLoading' = Finally("insertRejected")
  /\ UNCHANGED <<supported, mounted, abcInput, hasValidNotation, clicks, calls>>
  /\ UNCHANGED textVars
  /\ UNCHANGED exportVars

Next ==
  \/ Mount
  \/ Edit
  \/ Click
  \/ UploadResolves
  \/ UploadRejects
  \/ InsertResolves
  \/ InsertRejects

Spec == Init /\ [][Next]_vars

\* The host calls resolve: a pending upload or insertion eventually settles.
FairSpec ==
  /\ Spec
  /\ WF_vars(UploadResolves \/ UploadRejects)
  /\ WF_vars(InsertResolves \/ InsertRejects)

----------------------------------------------------------------------------
(* TextSpec: the normalizer and the classifier on bounded inputs *)

\* Characters of the bounded inputs: blanks, the two line-break characters,
\* the pieces of header prefixes (an upper-case field letter, the lower-case
\* w, the colon, the percent sign) and a note character.
TextAlphabet == {" ", "\n", "\r", ":", "%", "K", "w", "c"}
CtxAlphabet == {" ", "\n", "c"}

StringsUpTo(alphabet, n) == UNION {[1..k -> alphabet] : k \in 0..n}

\* Line beginnings to put in context: every recognized prefix and near misses
\* (a lower-case field letter, an unlisted field letter, a letter without its
\* colon, a single percent sign, a repeat bar, a bare colon).
LineHeads ==
  HeaderPrefixesNoLowerW \cup {<<"w", ":">>}
    \cup {<<"x", ":">>, <<"k", ":">>, <<"A", ":">>, <<"W">>, <<"T", " ", ":">>,
          <<"%">>, <<"%", " ", "%">>, <<"|", ":">>, <<":">>, <<"c">>}

TextInputs ==
  StringsUpTo(TextAlphabet, MaxLen)
    \cup {pre \o head \o post : pre \in StringsUpTo(CtxAlphabet, MaxCtx),
                                 head \in LineHeads,
                                 post \in StringsUpTo(CtxAlphabet, MaxCtx)}

TextInit ==
  /\ txt \in TextInputs
  /\ normOut = <<>>
  /\ validOut = "unknown"
  /\ expIn = NoExport
  /\ expOut = NoExport
  /\ supported = {}
  /\ mounted = FALSE
  /\ abcInput = DEFAULT_ABC
  /\ isLoading = FALSE
  /\ error = null
  /\ hasValidNotation = FALSE
  /\ clicks = 0
  /\ inv = <<>>
  /\ calls = <<>>

\* normalizeAbcInput applied to txt.
Normalize ==
  /\ normOut = <<>>
  /\ normOut' = <<normalizeAbcInput(txt)>>
  /\ UNCHANGED <<txt, validOut>>
  /\ UNCHANGED appVars
  /\ UNCHANGED exportVars

\* normalizeAbcInput applied to its own result, as the effect and the click
\* handler do on a text the user pasted back from a normalized one.
Renormalize ==
  /\ Len(normOut) = 1
  /\ normOut' = Append(normOut, normalizeAbcInput(normOut[1]))
  /\ UNCHANGED <<txt, validOut>>
  /\ UNCHANGED appVars
  /\ UNCHANGED exportVars

Classify ==
  /\ validOut = "unknown"
  /\ validOut' = IF hasNotes(txt) THEN "valid" ELSE "invalid"
  /\ UNCHANGED <<txt, normOut>>
  /\ UNCHANGED appVars
  /\ UNCHANGED exportVars

TextNext ==
  \/ Normalize
  \/ Renormalize
  \/ Classify

TextSpec == TextInit /\ [][TextNext]_vars

----------------------------------------------------------------------------
(* ExportSpec: the export preparation on bounded inputs *)

\* const padding = 20;
padding == 20

\* String(n) and `${n}` for an integer n: its decimal digits, "-" first when
\* negative.
DecimalDigits == <<"0", "1", "2", "3", "4", "5", "6", "7", "8", "9">>
RECURSIVE NatToString(_)
NatToString(n) ==
  IF n < 10 THEN <<DecimalDigits[n + 1]>>
  ELSE NatToString(n \div 10) \o <<DecimalDigits[(n % 10) + 1]>>
String(n) == IF n < 0 THEN <<"-">> \o NatToString(0 - n) ELSE NatToString(n)

\* svgClone.insertBefore(node, svgClone.firstChild)
insertBefore(children, node) == <<node>> \o children

\* A mutant of PrepareSvg: the background rectangle covers the nominal box
\* (0, 0, width, height) and not the rewritten viewBox.
PrepareSvgNominalBackground(svgElement) ==
  LET bbox == svgElement.bbox
      width == bbox.width + padding * 2
      height == bbox.height + padding * 2
      viewBoxX == bbox.x - padding
      viewBoxY == bbox.y - padding
      bgRect == [tag |-> "rect", x |-> String(0), y |-> String(0),
                 width |-> String(width), height |-> String(height),
                 fill |-> "#ffffff"]
  IN  [kind |-> "svgClone",
       width |-> String(width),
       height |-> String(height),
       viewBox |-> String(viewBoxX) \o <<" ">> \o String(viewBoxY) \o <<" ">>
                     \o String(width) \o <<" ">> \o String(height),
       children |-> insertBefore(svgElement.children, bgRect)]

\* Lines 134-165: clone the rendered <svg>, measure its content with
\* getBBox(), rewrite width, height and viewBox to the padded box, and put a
\* white rectangle of the same geometry before the first child.
PrepareSvg(svgElement) ==
  LET bbox == svgElement.bbox
      width == bbox.width + padding * 2
      height == bbox.height + padding * 2
      viewBoxX == bbox.x - padding
      viewBoxY == bbox.y - padding
      bgRect == [tag |-> "rect", x |-> String(viewBoxX), y |-> String(viewBoxY),
                 width |-> String(width), height |-> String(height),
                 fill |-> "#ffffff"]
  IN  [kind |-> "svgClone",
       width |-> String(width),
       height |-> String(height),
       viewBox |-> String(viewBoxX) \o <<" ">> \o String(viewBoxY) \o <<" ">>
                     \o String(width) \o <<" ">> \o String(height),
       children |-> insertBefore(svgElement.children, bgRect)]

\* Bounding boxes getBBox() may report: origins around zero and around the
\* padding, on both sides; extents from empty to the staff width and beyond.
BBoxOrigins == ((0 - MaxCoord)..MaxCoord) \cup {0 - 25, 19, 20, 21}
BBoxExtents == (0..MaxCoord) \cup {700, 1234}
BBoxes == [x : BBoxOrigins, y : BBoxOrigins,
           width : BBoxExtents, height : BBoxExtents]

\* Children the renderer may have put into the <svg>.
ChildLists == {<<>>, <<[tag |-> "g"]>>, <<[tag |-> "title"], [tag |-> "g"]>>}

SvgInputs == [kind : {"svg"}, bbox : BBoxes, children : ChildLists]

\* ---- the encoding of the serialized markup into a data URL ----
\* svgString is a JavaScript string: a sequence of UTF-16 code units, each a
\* number in 0..65535.  A call that can throw yields [threw, value].

IsHighSurrogate(u) == u >= 55296 /\ u <= 56319
IsLowSurrogate(u) == u >= 56320 /\ u <= 57343

\* The code point that starts at index k, as encodeURIComponent reads it.
CodePointAt(s, k) ==
  LET first == s[k]
  IN  IF ~IsHighSurrogate(first) /\ ~IsLowSurrogate(first)
      THEN [codePoint |-> first, codeUnitCount |-> 1, isUnpairedSurrogate |-> FALSE]
      ELSE IF IsLowSurrogate(first) \/ k + 1 > Len(s)
      THEN [codePoint |-> first, codeUnitCount |-> 1, isUnpairedSurrogate |-> TRUE]
      ELSE IF ~IsLowSurrogate(s[k + 1])
      THEN [codePoint |-> first, codeUnitCount |-> 1, isUnpairedSurrogate |-> TRUE]
      ELSE [codePoint |-> (first - 55296) * 1024 + (s[k + 1] - 56320) + 65536,
            codeUnitCount |-> 2, isUnpairedSurrogate |-> FALSE]

\* The UTF-8 octets of a code point.
UTF8Octets(cp) ==
  IF cp < 128 THEN <<cp>>
  ELSE IF cp < 2048 THEN <<192 + cp \div 64, 128 + (cp % 64)>>
  ELSE IF cp < 65536
  THEN <<224 + cp \div 4096, 128 + ((cp \div 64) % 64), 128 + (cp % 64)>>
  ELSE <<240 + cp \div 262144, 128 + ((cp \div 4096) % 64),
         128 + ((cp \div 64) % 64), 128 + (cp % 64)>>

\* "%XX" for one octet, in upper-case hexadecimal.
HexDigitUnit(d) == IF d < 10 THEN 48 + d ELSE 55 + d
PercentEscape(octet) == <<37, HexDigitUnit(octet \div 16), HexDigitUnit(octet % 16)>>
EscapeOctets(octets) ==
  LET F[i \in 0..Len(octets)] ==
        IF i = 0 THEN <<>> ELSE F[i - 1] \o PercentEscape(octets[i])
  IN  F[Len(octets)]

\* The characters encodeURIComponent leaves as they are:
\* A-Z a-z 0-9 - _ . ! ~ * ' ( )
UriUnreserved ==
  (65..90) \cup (97..122) \cup (48..57) \cup {45, 95, 46, 33, 126, 42, 39, 40, 41}

RECURSIVE EncodeFrom(_, _)
EncodeFrom(s, k) ==
  IF k > Len(s) THEN [threw |-> FALSE, value |-> <<>>]
  ELSE LET cp == CodePointAt(s, k)
       IN  IF cp.isUnpairedSurrogate THEN [threw |-> TRUE, value |-> <<>>]
           ELSE LET rest == EncodeFrom(s, k + cp.codeUnitCount)
                    here == IF cp.codePoint \in UriUnreserved
                            THEN <<cp.codePoint>>
                            ELSE EscapeOctets(UTF8Octets(cp.codePoint))
                IN  IF rest.threw THEN rest
                    ELSE [threw |-> FALSE, value |-> here \o rest.value]

\* encodeURIComponent(svgString): throws URIError on an unpaired surrogate.
encodeURIComponent(s) == EncodeFrom(s, 1)

IsHexDigit(u) == u \in (48..57) \cup (65..70) \cup (97..102)
HexValue(u) == IF u <= 57 THEN u - 48 ELSE IF u <= 70 THEN u - 55 ELSE u - 87

RECURSIVE UnescapeFrom(_, _)
UnescapeFrom(s, k) ==
  IF k > Len(s) THEN <<>>
  ELSE IF /\ s[k] = 37
          /\ k + 5 <= Len(s)
          /\ s[k + 1] = 117
          /\ \A j \in 2..5 : IsHexDigit(s[k + j])
  THEN <<HexValue(s[k + 2]) * 4096 + HexValue(s[k + 3]) * 256
           + HexValue(s[k + 4]) * 16 + HexValue(s[k + 5])>>
         \o UnescapeFrom(s, k + 6)
  ELSE IF /\ s[k] = 37
          /\ k + 2 <= Len(s)
          /\ IsHexDigit(s[k + 1])
          /\ IsHexDigit(s[k + 2])
  THEN <<HexValue(s[k + 1]) * 16 + HexValue(s[k + 2])>> \o UnescapeFrom(s, k + 3)
  ELSE <<s[k]>> \o UnescapeFrom(s, k + 1)

\* unescape(...): "%uXXXX" and "%XX" become the code unit they name.
unescape(s) == UnescapeFrom(s, 1)

Base64Chars ==
  <<"A", "B", "C", "D", "E", "F", "G", "H", "I", "J", "K", "L", "M", "N", "O", "P",
    "Q", "R", "S", "T", "U", "V", "W", "X", "Y", "Z", "a", "b", "c", "d", "e", "f",
    "g", "h", "i", "j", "k", "l", "m", "n", "o", "p", "q", "r", "s", "t", "u", "v",
    "w", "x", "y", "z", "0", "1", "2", "3", "4", "5", "6", "7", "8", "9", "+", "/">>

RECURSIVE Base64From(_, _)
Base64From(b, k) ==
  IF k > Len(b) THEN <<>>
  ELSE LET b1 == b[k]
           b2 == IF k + 1 <= Len(b) THEN b[k + 1] ELSE 0
           b3 == IF k + 2 <= Len(b) THEN b[k + 2] ELSE 0
           c1 == Base64Chars[b1 \div 4 + 1]
           c2 == Base64Chars[(b1 % 4) * 16 + b2 \div 16 + 1]
           c3 == IF k + 1 <= Len(b)
                 THEN Base64Chars[(b2 % 16) * 4 + b3 \div 64 + 1] ELSE "="
           c4 == IF k + 2 <= Len(b) THEN Base64Chars[(b3 % 64) + 1] ELSE "="
       IN  <<c1, c2, c3, c4>> \o Base64From(b, k + 3)

\* btoa(...): throws InvalidCharacterError on a code unit above 255.
btoa(s) ==
  IF \E k \in 1..Len(s) : s[k] > 255
  THEN [threw |-> TRUE, value |-> <<>>]
  ELSE [threw |-> FALSE, value |-> Base64From(s, 1)]

\* "data:image/svg+xml;base64,"
DataUrlPrefix ==
  <<"d", "a", "t", "a", ":", "i", "m", "a", "g", "e", "/", "s", "v", "g", "+", "x",
    "m", "l", ";", "b", "a", "s", "e", "6", "4", ",">>

\* A mutant of EncodeSvgString: the markup is handed to btoa as it is.
EncodeSvgStringLatin1(svgString) ==
  LET base64 == btoa(svgString)
  IN  IF base64.threw
      THEN [kind |-> "throws", error |-> "InvalidCharacterError"]
      ELSE [kind |-> "dataUrl", dataUrl |-> DataUrlPrefix \o base64.value]

\* const base64 = btoa(unescape(encodeURIComponent(svgString)));
\* const dataUrl = `data:image/svg+xml;base64,${base64}`;
\* A throw is caught by the handler's catch block.
EncodeSvgString(svgString) ==
  LET encoded == encodeURIComponent(svgString)
  IN  IF encoded.threw THEN [kind |-> "throws", error |-> "URIError"]
      ELSE LET base64 == btoa(unescape(encoded.value))
           IN  IF base64.threw
               THEN [kind |-> "throws", error |-> "InvalidCharacterError"]
               ELSE [kind |-> "dataUrl", dataUrl |-> DataUrlPrefix \o base64.value]

\* The code units markup is built from here: A % u 2, e-acute (two octets),
\* a CJK ideograph (three octets), and the two halves of U+1F3B5 (four
\* octets), which also occur unpaired.
UnitAlphabet == {65, 37, 117, 50, 233, 20013, 55356, 57269}
UnitStrings == UNION {[1..n -> UnitAlphabet] : n \in 0..MaxUnits}
MarkupInputs == [kind : {"markup"}, svgString : UnitStrings]

ExportInputs == SvgInputs \cup MarkupInputs

ExportInit ==
  /\ expIn \in ExportInputs
  /\ expOut = NoExport
  /\ txt = <<>>
  /\ normOut = <<>>
  /\ validOut = "unknown"
  /\ supported = {}
  /\ mounted = FALSE
  /\ abcInput = DEFAULT_ABC
  /\ isLoading = FALSE
  /\ error = null
  /\ hasValidNotation = FALSE
  /\ clicks = 0
  /\ inv = <<>>
  /\ calls = <<>>

RewriteSvg ==
  /\ expIn.kind = "svg"
  /\ expOut = NoExport
  /\ expOut' = PrepareSvg(expIn)
  /\ UNCHANGED expIn
  /\ UNCHANGED appVars
  /\ UNCHANGED textVars

\* The serialized markup is encoded into the data URL.
EncodeMarkup ==
  /\ expIn.kind = "markup"
  /\ expOut = NoExport
  /\ expOut' = EncodeSvgString(expIn.svgString)
  /\ UNCHANGED expIn
  /\ UNCHANGED appVars
  /\ UNCHANGED textVars

ExportNext ==
  \/ RewriteSvg
  \/ EncodeMarkup

ExportSpec == ExportInit /\ [][ExportNext]_vars

----------------------------------------------------------------------------
(* Vocabulary of the claims, stated on the raw text by character positions *)

\* Characters that leave a line blank.
BlankChars == {" ", "\t", "\r"}

\* The field letters of the recognized header prefixes.
FieldLetters == {"X", "T", "M", "L", "K", "C", "Q", "R", "N", "H", "S", "O",
                 "B", "D", "Z", "G", "F", "P", "I", "W", "w", "V"}

\* The lines of t as pairs <<b, e>>: the line's first position and the
\* position where it stops (its line break, or one past the end of t).
LineSpans(t) ==
  LET breaks == {j \in 1..Len(t) : t[j] = "\n"}
  IN  {<<b, Min({j \in breaks : j >= b} \cup {Len(t) + 1})>> :
         b \in {1} \cup {j + 1 : j \in breaks}}

\* The position of the first non-blank character of a line, 0 when the line
\* is blank.
FirstInk(t, span) ==
  LET ink == {k \in span[1]..(span[2] - 1) : t[k] \notin BlankChars}
  IN  IF ink = {} THEN 0 ELSE Min(ink)

LineIsBlank(t, span) == FirstInk(t, span) = 0

LineIsHeader(t, span) ==
  LET k == FirstInk(t, span)
  IN  /\ k # 0
      /\ k + 1 < span[2]
      /\ \/ t[k] \in FieldLetters /\ t[k + 1] = ":"
         \/ t[k] = "%" /\ t[k + 1] = "%"

HasNoteLine(t) ==
  \E span \in LineSpans(t) : ~LineIsBlank(t, span) /\ ~LineIsHeader(t, span)

OnlyHeaderLines(t) ==
  \A span \in LineSpans(t) : LineIsBlank(t, span) \/ LineIsHeader(t, span)

\* Invocations in progress, and those a step ends.
InProgress == {id \in 1..Len(inv) : inv[id].st \in InFlight}
EndsIn(id, st) ==
  /\ id \in 1..Len(inv')
  /\ inv'[id].st = st
  /\ (id > Len(inv) \/ inv[id].st # st)
CallsOf(id, ops) == {n \in 1..Len(calls) : calls[n].id = id /\ calls[n].op \in ops}
HostOps == {"upload", "addElementAtPoint", "addElementAtCursor"}
InsertOps == {"addElementAtPoint", "addElementAtCursor"}

----------------------------------------------------------------------------
(* Claims *)

\* C1: a click on the button while the validity flag is false, while an
\* invocation is in flight, or with no insertion capability detected, is a
\* no-op: no renderer, upload or insertion call, no new invocation, and the
\* in-flight flag and the error message keep their values.
C1_GuardedClickIsNoOp ==
  [][(/\ clicks' # clicks
      /\ (~hasValidNotation \/ isLoading \/ addElement = undefined))
     => (/\ calls' = calls
         /\ inv' = inv
         /\ isLoading' = isLoading
         /\ error' = error)]_vars

\* Two clicks were made with a capability detected, one of them was swallowed
\* and the other one's export is still uploading.
C1_Witness ==
  /\ addElement # undefined
  /\ clicks = 2
  /\ Len(inv) = 1
  /\ inv[1].st = "uploading"
  /\ isLoading

\* C2: at most one invocation is in progress at any time, and every external
\* call (render, upload, insertion) of an invocation is made when all earlier
\* invocations have ended.
C2_OneExportAtATime ==
  [][/\ Cardinality(InProgress') <= 1
     /\ \A n \in (Len(calls) + 1)..Len(calls') :
          \A j \in 1..(calls'[n].id - 1) : inv[j].st \in Ended]_vars

\* A second export is inserting after the first one completed.
C2_Witness ==
  /\ Len(inv) = 2
  /\ inv[1].st = "inserted"
  /\ inv[2].st = "inserting"
  /\ Cardinality(InProgress) = 1

\* C3: the step that ends an invocation, on any path, leaves the in-flight flag
\* false; and with host calls that settle, a set flag is eventually cleared.
C3_FlagClearedOnEveryExit ==
  /\ [][\A id \in 1..Len(inv') : \A st \in Ended :
          EndsIn(id, st) => ~isLoading']_vars
  /\ (isLoading ~> ~isLoading)

\* An export failed at the upload and the button can be clicked again.
C3_Witness ==
  /\ \E id \in 1..Len(inv) : inv[id].st = "uploadRejected"
  /\ ~isLoading
  /\ addElement # undefined
  /\ hasValidNotation

\* C4: when the renderer throws, the error message becomes the "no sheet music
\* to add" message, no upload or insertion is made and the in-flight flag is
\* false afterwards.
C4_RenderThrowReported ==
  [][\A id \in 1..Len(inv') :
       EndsIn(id, "renderThrew")
         => (/\ error' = NoSheetMusicMessage
             /\ ~isLoading'
             /\ \A n \in 1..Len(calls') :
                  calls'[n].id = id => calls'[n].op \notin HostOps)]_vars

\* C5: when the renderer returns and the container holds no <svg> node, the
\* error message becomes the "no sheet music to add" message, the in-flight
\* flag is not touched (it is false and stays false), the only call made is
\* the renderer's, and that invocation never uploads or inserts.
C5_NoSvgReported ==
  /\ [][\A id \in 1..Len(inv') :
          EndsIn(id, "noSvg")
            => (/\ error' = NoSheetMusicMessage
                /\ ~isLoading /\ ~isLoading'
                /\ Len(calls') = Len(calls) + 1
                /\ calls'[Len(calls')].op = "renderAbc")]_vars
  /\ [](\A id \in 1..Len(inv) :
          inv[id].st = "noSvg" => CallsOf(id, HostOps) = {})

\* An invocation ended without an <svg> node and its message is shown.
C5_Witness ==
  /\ \E id \in 1..Len(inv) : inv[id].st = "noSvg"
  /\ error = NoSheetMusicMessage
  /\ ~isLoading

\* C6: when the upload rejects, the error message becomes the generic failure
\* message and the in-flight flag false; that invocation never calls the
\* insertion and holds no asset reference.
C6_UploadFailure ==
  /\ [][\A id \in 1..Len(inv') :
          EndsIn(id, "uploadRejected")
            => (/\ error' = FailedMessage
                /\ isLoading /\ ~isLoading'
                /\ calls' = calls)]_vars
  /\ [](\A id \in 1..Len(inv) :
          inv[id].st = "uploadRejected"
            => (/\ CallsOf(id, InsertOps) = {}
                /\ Cardinality(CallsOf(id, {"upload"})) = 1
                /\ inv[id].ref = <<>>))

\* An upload was rejected and the generic message is shown.
C6_Witness ==
  /\ \E id \in 1..Len(inv) : inv[id].st = "uploadRejected"
  /\ error = FailedMessage
  /\ ~isLoading

\* C7: a rejected insertion leaves the same user-visible state as a rejected
\* upload: text and validity flag untouched, the in-flight flag false and the
\* same generic message.
C7_InsertFailureLikeUploadFailure ==
  [][\A id \in 1..Len(inv') :
       (EndsIn(id, "insertRejected") \/ EndsIn(id, "uploadRejected"))
         => (/\ <<abcInput', hasValidNotation'>> = <<abcInput, hasValidNotation>>
             /\ isLoading' = FALSE
             /\ error' = FailedMessage)]_vars

\* An insertion was rejected after a successful upload and the generic message
\* is shown.
C7_Witness ==
  /\ \E id \in 1..Len(inv) :
       /\ inv[id].st = "insertRejected"
       /\ inv[id].ref # <<>>
       /\ CallsOf(id, InsertOps) # {}
  /\ error = FailedMessage
  /\ ~isLoading

\* C8: with the default tune and a capability detected the classifier reports
\* valid and the button is enabled; when the one export made so far, of the
\* default tune, has been inserted, the calls made are exactly one render, one
\* upload and one insertion, in this order, the in-flight flag is false and no
\* error is shown.
C8_ScenarioA ==
  /\ (mounted /\ abcInput = DEFAULT_ABC) => hasValidNotation
  /\ (mounted /\ abcInput = DEFAULT_ABC /\ addElement # undefined /\ inv = <<>>)
       => ~Disabled
  /\ (Len(inv) = 1 /\ inv[1].st = "inserted" /\ inv[1].input = DEFAULT_ABC)
       => (/\ Len(calls) = 3
           /\ calls[1].op = "renderAbc"
           /\ calls[2].op = "upload"
           /\ calls[3].op \in InsertOps
           /\ \A n \in 1..3 : calls[n].id = 1
           /\ ~isLoading
           /\ error = null)

\* One click on the default tune went through to the insertion.
C8_Witness ==
  /\ abcInput = DEFAULT_ABC
  /\ clicks = 1
  /\ Len(inv) = 1
  /\ inv[1].st = "inserted"
  /\ inv[1].input = DEFAULT_ABC

\* C9: the classifier answers valid exactly when some line of the text, its
\* leading blanks skipped, is neither blank nor begins with a recognized
\* header prefix; so a text of header lines and blank lines only is invalid,
\* and one with a further non-blank, non-header line is valid.
C9_ValidIffNoteLine ==
  validOut # "unknown" => (validOut = "valid" <=> HasNoteLine(txt))

\* A text with a header line and a note line was classified valid.
C9_Witness ==
  /\ validOut = "valid"
  /\ \E span \in LineSpans(txt) : LineIsHeader(txt, span)
  /\ \E span \in LineSpans(txt) :
       ~LineIsBlank(txt, span) /\ ~LineIsHeader(txt, span)

C11_FlagMatchesTextFromTheStart ==
  hasValidNotation <=> ClassifiedOf[abcInput]

\* C11, amended: in every state from the validation effect's first run on, the
\* validity flag equals the classifier's result on the current text, and the
\* step that changes the text is the step that recomputes the flag, so every
\* later event meets the recomputed flag.
C11_FlagMatchesTextOnceMounted ==
  /\ [](mounted => (hasValidNotation <=> ClassifiedOf[abcInput]))
  /\ [][abcInput' # abcInput
          => (hasValidNotation' <=> ClassifiedOf[abcInput'])]_vars

\* The text was edited from the valid default tune to a header-only text, the
\* flag followed, and a click was then made.
C11_Witness ==
  /\ mounted
  /\ abcInput = IndentedHeadersText
  /\ ~hasValidNotation
  /\ clicks = 1
  /\ calls = <<>>

\* The k-th line of t, and the text of a line with and without its leading
\* blanks.
NthSpan(t, k) ==
  CHOOSE sp \in LineSpans(t) :
    Cardinality({q \in LineSpans(t) : q[1] < sp[1]}) = k - 1
LineText(t, sp) == SubSeq(t, sp[1], sp[2] - 1)
LineStripped(t, sp) ==
  IF FirstInk(t, sp) = 0 THEN <<>> ELSE SubSeq(t, FirstInk(t, sp), sp[2] - 1)

\* C12: normalizing a normalized string gives the same string.
C12_NormalizeIdempotent ==
  Len(normOut) = 2 => normOut[2] = normOut[1]

\* A string the normalizer changed was normalized twice.
C12_Witness ==
  /\ Len(normOut) = 2
  /\ normOut[1] # txt
  /\ Cardinality(LineSpans(txt)) >= 2

\* C13: the normalizer's result has as many lines as its input (lines being
\* delimited by "\n", which also joins the result), and each line of the
\* result is the input line from its first non-blank character on (a carriage
\* return counts as a blank).
C13_NormalizeStripsLeadingBlanks ==
  Len(normOut) >= 1 =>
    /\ Cardinality(LineSpans(normOut[1])) = Cardinality(LineSpans(txt))
    /\ \A k \in 1..Cardinality(LineSpans(txt)) :
         LineText(normOut[1], NthSpan(normOut[1], k))
           = LineStripped(txt, NthSpan(txt, k))

\* A text of several lines, one of them indented and with a blank after its
\* last character, was normalized: the indent went and the rest stayed.
C13_Witness ==
  /\ Len(normOut) >= 1
  /\ Cardinality(LineSpans(txt)) >= 2
  /\ \E sp \in LineSpans(txt) :
       /\ FirstInk(txt, sp) > sp[1]
       /\ txt[sp[2] - 1] \in BlankChars
  /\ normOut[1] # txt

\* The integer a decimal string denotes.
RECURSIVE ParseNat(_)
ParseNat(str) ==
  IF Len(str) = 0 THEN 0
  ELSE 10 * ParseNat(SubSeq(str, 1, Len(str) - 1))
         + (CHOOSE d \in 0..9 : DecimalDigits[d + 1] = str[Len(str)])
ParseNumber(str) ==
  IF Len(str) > 0 /\ str[1] = "-" THEN 0 - ParseNat(Tail(str)) ELSE ParseNat(str)

\* C14: for a content box (x, y, w, h) the rewritten viewBox is
\* (x - 20, y - 20, w + 40, h + 40) and width and height are w + 40 and
\* h + 40, each 2 x padding more than the content's; the first child is the
\* background rectangle, whose x, y, width and height are the viewBox's four
\* numbers, and the rendered children follow it unchanged.
C14_PaddedViewBoxAndBackground ==
  expOut.kind = "svgClone" =>
    LET b == expIn.bbox
        vb == split(expOut.viewBox, " ")
        rect == expOut.children[1]
    IN  /\ Len(vb) = 4
        /\ <<ParseNumber(vb[1]), ParseNumber(vb[2]),
             ParseNumber(vb[3]), ParseNumber(vb[4])>>
             = <<b.x - 20, b.y - 20, b.width + 40, b.height + 40>>
        /\ ParseNumber(expOut.width) = b.width + 40
        /\ ParseNumber(expOut.height) = b.height + 40
        /\ ParseNumber(expOut.width) - b.width >= 2 * padding
        /\ ParseNumber(expOut.height) - b.height >= 2 * padding
        /\ rect.tag = "rect"
        /\ <<rect.x, rect.y, rect.width, rect.height>>
             = <<vb[1], vb[2], vb[3], vb[4]>>
        /\ Tail(expOut.children) = expIn.children

\* An image whose content starts left of and above the origin (a title above
\* the staff) and has children was rewritten.
C14_Witness ==
  /\ expOut.kind = "svgClone"
  /\ expIn.bbox.x < 0
  /\ expIn.bbox.y < 0
  /\ expIn.bbox.width = 700
  /\ Len(expIn.children) = 2

\* C15: the capability used is the point-based one when it is supported,
\* otherwise the cursor-based one when that is supported, and it is the same
\* for the whole session; when neither is supported the button is disabled in
\* every state, no renderer, upload or insertion call is ever made and no
\* error is ever set.
C15_CapabilitySelection ==
  /\ [](\A n \in 1..Len(calls) :
          calls[n].op \in InsertOps
            => calls[n].op = IF "addElementAtPoint" \in supported
                             THEN "addElementAtPoint"
                             ELSE "addElementAtCursor")
  /\ []((Len(inv) > 0 /\ "addElementAtPoint" \notin supported)
          => "addElementAtCursor" \in supported)
  /\ [](supported = {}
          => (Disabled /\ calls = <<>> /\ inv = <<>> /\ error = null))
  /\ [][supported' = supported]_vars

\* With both capabilities supported an insertion was made; it was the
\* point-based one.
C15_Witness ==
  /\ supported = Features
  /\ Len(calls) = 3
  /\ calls[3].op = "addElementAtPoint"

\* With no capability, clicks on valid text were made and nothing happened.
C15_WitnessUnsupported ==
  /\ supported = {}
  /\ hasValidNotation
  /\ abcInput = ShortTuneText
  /\ clicks = 2
  /\ calls = <<>>

UploadsMade == {n \in 1..Len(calls) : calls[n].op = "upload"}
FailedEnds == {"uploadRejected", "insertRejected"}

\* C16: nothing is retried automatically: there are never more uploads than
\* clicks, each invocation makes at most one renderer call, one upload and
\* one insertion, a step that is not a click makes a host call only as the
\* insertion of an invocation whose upload was pending, and once an
\* invocation has failed it makes no further call.
C16_NoAutomaticRetry ==
  /\ [](/\ Cardinality(UploadsMade) <= clicks
        /\ Len(inv) <= clicks
        /\ \A id \in 1..Len(inv) :
             /\ Cardinality(CallsOf(id, {"renderAbc"})) <= 1
             /\ Cardinality(CallsOf(id, {"upload"})) <= 1
             /\ Cardinality(CallsOf(id, InsertOps)) <= 1)
  /\ [][clicks' = clicks
          => \/ calls' = calls
             \/ \E id \in 1..Len(inv) :
                  /\ inv[id].st = "uploading"
                  /\ Len(calls') = Len(calls) + 1
                  /\ SubSeq(calls', 1, Len(calls)) = calls
                  /\ calls'[Len(calls')].op \in InsertOps
                  /\ calls'[Len(calls')].id = id]_vars
  /\ [][\A id \in 1..Len(inv) :
          inv[id].st \in FailedEnds
            => /\ inv'[id] = inv[id]
               /\ \A n \in 1..Len(calls') : n > Len(calls) => calls'[n].id # id]_vars

\* A first export failed at the upload; only the second click uploaded again.
C16_Witness ==
  /\ clicks = 2
  /\ Len(inv) = 2
  /\ inv[1].st = "uploadRejected"
  /\ inv[2].st = "inserted"
  /\ Cardinality(UploadsMade) = 2

\* C17: an insertion is requested only by an invocation whose own upload was
\* made before and has resolved, and it carries the reference that upload
\* returned; an invocation whose upload is pending or has failed has made no
\* insertion.
C17_InsertionCarriesItsUploadRef ==
  /\ [](\A n \in 1..Len(calls) :
          calls[n].op \in InsertOps
            => /\ \E m \in 1..(n - 1) :
                    calls[m].op = "upload" /\ calls[m].id = calls[n].id
               /\ inv[calls[n].id].st \in {"inserting", "inserted", "insertRejected"}
               /\ calls[n].arg = UploadedRef(calls[n].id)
               /\ calls[n].arg = inv[calls[n].id].ref)
  /\ [](\A id \in 1..Len(inv) :
          inv[id].st \notin {"inserting", "inserted", "insertRejected"}
            => CallsOf(id, InsertOps) = {})

\* Two exports were inserted, each with the reference of its own upload.
C17_Witness ==
  /\ Len(inv) = 2
  /\ inv[1].st = "inserted"
  /\ inv[2].st = "inserted"
  /\ inv[2].ref = UploadedRef(2)
  /\ Cardinality(CallsOf(2, InsertOps)) = 1

\* C18: an export that has started is not cancelled: while it is in flight
\* the loading flag is set and the button is disabled; an edit or a click
\* leaves the invocation, the flag and the calls as they are; and the
\* invocation goes on to end inserted or with the failure message reported.
C18_NoCancellation ==
  /\ [](InProgress # {}
          => (isLoading /\ (addElement = undefined \/ isLoading \/ ~hasValidNotation)))
  /\ [][(InProgress # {} /\ (abcInput' # abcInput \/ clicks' # clicks))
          => (inv' = inv /\ calls' = calls /\ isLoading')]_vars
  /\ [][\A id \in 1..Len(inv) :
          inv[id].st \in InFlight
            => /\ inv'[id].st \in InFlight \cup FailedEnds \cup {"inserted"}
               /\ inv'[id].st \in FailedEnds => error' = FailedMessage]_vars
  /\ \A id \in 1..MaxClicks :
       (Len(inv) >= id /\ inv[id].st \in InFlight)
         ~> (Len(inv) >= id /\ inv[id].st \in FailedEnds \cup {"inserted"})

\* An export is still uploading although the text was changed to one without
\* notes and the button was clicked again.
C18_Witness ==
  /\ Len(inv) = 1
  /\ inv[1].st = "uploading"
  /\ abcInput = HeadersOnlyText
  /\ ~hasValidNotation
  /\ clicks = 2
  /\ isLoading

\* C20: while the loading flag is set no error is shown.
C20_NoErrorWhileLoading == isLoading => error = null

\* A second export is loading after the first one failed with the alert.
C20_Witness ==
  /\ Len(inv) = 2
  /\ inv[1].st \in FailedEnds
  /\ inv[2].st \in InFlight
  /\ abcInput = HeadersOnlyText
  /\ isLoading
  /\ error = null

\* Decoding a data URL, written from RFC 2397, RFC 4648 and RFC 3629.
Base64Table ==
  <<"A", "B", "C", "D", "E", "F", "G", "H", "I", "J", "K", "L", "M", "N", "O", "P",
    "Q", "R", "S", "T", "U", "V", "W", "X", "Y", "Z", "a", "b", "c", "d", "e", "f",
    "g", "h", "i", "j", "k", "l", "m", "n", "o", "p", "q", "r", "s", "t", "u", "v",
    "w", "x", "y", "z", "0", "1", "2", "3", "4", "5", "6", "7", "8", "9", "+", "/">>
Base64Value(ch) == (CHOOSE i \in 1..64 : Base64Table[i] = ch) - 1
PayloadOf(url) ==
  LET comma == CHOOSE i \in 1..Len(url) :
                 url[i] = "," /\ \A j \in 1..(i - 1) : url[j] # ","
  IN  SubSeq(url, comma + 1, Len(url))
MediaPartOf(url) ==
  LET comma == CHOOSE i \in 1..Len(url) :
                 url[i] = "," /\ \A j \in 1..(i - 1) : url[j] # ","
  IN  SubSeq(url, 1, comma)
RECURSIVE Base64Decode(_)
Base64Decode(p) ==
  IF Len(p) < 4 THEN <<>>
  ELSE LET pad3 == p[3] = "="
           pad4 == p[4] = "="
           v3 == IF pad3 THEN 0 ELSE Base64Value(p[3])
           v4 == IF pad4 THEN 0 ELSE Base64Value(p[4])
           n == Base64Value(p[1]) * 262144 + Base64Value(p[2]) * 4096 + v3 * 64 + v4
           bytes == <<n \div 65536, (n \div 256) % 256, n % 256>>
       IN  SubSeq(bytes, 1, IF pad3 THEN 1 ELSE IF pad4 THEN 2 ELSE 3)
             \o Base64Decode(SubSeq(p, 5, Len(p)))
RECURSIVE Utf8Decode(_)
Utf8Decode(b) ==
  IF b = <<>> THEN <<>>
  ELSE LET n == IF b[1] < 128 THEN 1
                ELSE IF b[1] >= 192 /\ b[1] < 224 THEN 2
                ELSE IF b[1] >= 224 /\ b[1] < 240 THEN 3
                ELSE IF b[1] >= 240 /\ b[1] < 248 THEN 4
                ELSE 0
       IN  IF n = 0 \/ n > Len(b) \/ (\E j \in 2..n : b[j] \div 64 # 2)
           THEN <<0 - 1>>
           ELSE LET cp == CASE n = 1 -> b[1]
                            [] n = 2 -> (b[1] - 192) * 64 + (b[2] - 128)
                            [] n = 3 -> (b[1] - 224) * 4096 + (b[2] - 128) * 64
                                          + (b[3] - 128)
                            [] n = 4 -> (b[1] - 240) * 262144 + (b[2] - 128) * 4096
                                          + (b[3] - 128) * 64 + (b[4] - 128)
                IN  <<cp>> \o Utf8Decode(SubSeq(b, n + 1, Len(b)))
RECURSIVE Utf16Units(_)
Utf16Units(cps) ==
  IF cps = <<>> THEN <<>>
  ELSE (IF cps[1] < 65536 THEN <<cps[1]>>
        ELSE <<55296 + (cps[1] - 65536) \div 1024,
               56320 + ((cps[1] - 65536) % 1024)>>)
         \o Utf16Units(Tail(cps))
HighHalves == 55296..56319
LowHalves == 56320..57343
IsWellFormedText(s) ==
  \A k \in 1..Len(s) :
    /\ s[k] \in HighHalves => (k < Len(s) /\ s[k + 1] \in LowHalves)
    /\ s[k] \in LowHalves => (k > 1 /\ s[k - 1] \in HighHalves)
DataUrlHead ==
  <<"d", "a", "t", "a", ":", "i", "m", "a", "g", "e", "/", "s", "v", "g", "+", "x",
    "m", "l", ";", "b", "a", "s", "e", "6", "4", ",">>

\* C19: for every serialized markup that is well-formed text, ASCII or not,
\* the encoding step produces a data URL with the SVG base64 media part, and
\* base64-decoding its payload and reading the bytes as UTF-8 gives back
\* exactly the markup.
C19_EncodingRoundTrips ==
  (expIn.kind = "markup" /\ expOut # NoExport)
    => /\ IsWellFormedText(expIn.svgString) => expOut.kind = "dataUrl"
       /\ expOut.kind = "dataUrl"
            => /\ MediaPartOf(expOut.dataUrl) = DataUrlHead
               /\ Utf16Units(Utf8Decode(Base64Decode(PayloadOf(expOut.dataUrl))))
                    = expIn.svgString

\* A markup with a three-octet character and a surrogate pair was encoded.
C19_Witness ==
  /\ expIn.kind = "markup"
  /\ expIn.svgString = <<20013, 55356, 57269>>
  /\ expOut.kind = "dataUrl"
  /\ Len(PayloadOf(expOut.dataUrl)) = 12

\* C21: an edit of the text never changes the loading flag; when the edited
\* text has a note line the flag for valid notation is set and the error is
\* cleared; when it has none the flag is reset and the error stays as it was.
C21_EditFrame ==
  [][abcInput' # abcInput
       => /\ isLoading' = isLoading
          /\ inv' = inv
          /\ calls' = calls
          /\ clicks' = clicks
          /\ IF HasNoteLine(abcInput')
             THEN hasValidNotation' /\ error' = null
             ELSE ~hasValidNotation' /\ error' = error]_vars

\* The alert set by a click on the default tune is still shown after the text
\* was changed to headers only.
C21_Witness ==
  /\ clicks = 1
  /\ Len(inv) = 1
  /\ inv[1].st = "noSvg"
  /\ abcInput = HeadersOnlyText
  /\ ~hasValidNotation
  /\ error = "No sheet music to add. Please enter ABC notation."

\* The failure alert of an export is still shown over header-only text.
C21_WitnessFailure ==
  /\ Len(inv) = 1
  /\ inv[1].st = "uploadRejected"
  /\ abcInput = HeadersOnlyText
  /\ error = "Failed to add sheet music to design"

IsNormalizationOf(n, t) ==
  /\ Cardinality(LineSpans(n)) = Cardinality(LineSpans(t))
  /\ \A k \in 1..Cardinality(LineSpans(t)) :
       LineText(n, NthSpan(n, k)) = LineStripped(t, NthSpan(t, k))

\* C22: an invocation renders and uploads the text of the click with the
\* leading blanks of its lines removed; later steps, edits included, change
\* neither that text nor the calls already made, and the insertion carries
\* the reference of that upload.
C22_ExportsTextOfTheClick ==
  /\ [](\A n \in 1..Len(calls) :
          /\ calls[n].op \in {"renderAbc", "upload"}
               => calls[n].arg = inv[calls[n].id].input
          /\ calls[n].op \in InsertOps
               => calls[n].arg = <<"ref", calls[n].id>>)
  /\ [][/\ Len(inv') > Len(inv)
          => /\ clicks' = clicks + 1
             /\ Len(inv') = Len(inv) + 1
             /\ IsNormalizationOf(inv'[Len(inv')].input, abcInput)
        /\ \A id \in 1..Len(inv) : inv'[id].input = inv[id].input
        /\ Len(calls') >= Len(calls)
        /\ SubSeq(calls', 1, Len(calls)) = calls]_vars

\* The default tune is being exported, uploaded and handed to the insertion,
\* while the text box already holds another tune.
C22_Witness ==
  /\ clicks = 1
  /\ Len(inv) = 1
  /\ inv[1].st = "inserting"
  /\ abcInput = ShortTuneText
  /\ Len(calls) = 3
  /\ calls[2].op = "upload"
  /\ calls[2].arg = DEFAULT_ABC

====
